---------------------------- MODULE Spec2Model ----------------------------
(***************************************************************************)
(* A model of refactor_imports.py: the barrel-import rewriter of           *)
(* ts-collections.                                                         *)
(*                                                                         *)
(* Text is modelled as a sequence of tokens (a token is a TLA+ string that *)
(* stands for the same characters in the Python string): a keyword, a      *)
(* punctuation mark, one whitespace character, one path component, one     *)
(* identifier.  A file is the token sequence of its decoded text; a line   *)
(* is the token sequence up to and including its "\n".  The regular        *)
(* expressions, split/strip, sorted() and the os.path functions are        *)
(* computed on these sequences the way Python computes them on strings.    *)
(* os.path is ntpath (PROJECT_ROOT is a Windows path, os.sep is "\\").     *)
(* Outside the model: drive letters other than c: (relpath's ValueError),  *)
(* ntpath's case folding, and the newline translation of text-mode I/O.    *)
(***************************************************************************)
EXTENDS Integers, Sequences, FiniteSets, TLC

-----------------------------------------------------------------------------
(* Generic string (token sequence) helpers                                 *)

\* F applied to v: v is computed once and named by F's parameter
Let(v, F(_)) == F(v)

\* str.startswith / slicing helpers
Drop(s, n) == SubSeq(s, n + 1, Len(s))

Take(s, n) == SubSeq(s, 1, n)

\* s.replace(old, new) for single-character old and new
replace(s, old, new) == [i \in 1..Len(s) |-> IF s[i] = old THEN new ELSE s[i]]

\* the whitespace class \s of re, and of str.strip()
Whitespace == {" ", "\t", "\n"}

RECURSIVE lstrip(_)
lstrip(s) ==
  IF s # <<>> /\ Head(s) \in Whitespace THEN lstrip(Tail(s)) ELSE s

RECURSIVE rstrip(_)
rstrip(s) ==
  IF s # <<>> /\ s[Len(s)] \in Whitespace THEN rstrip(Take(s, Len(s) - 1)) ELSE s

\* str.strip()
strip(s) == rstrip(lstrip(s))

\* str.split(sep) for a single-character separator: the list of the pieces,
\* empty pieces included
RECURSIVE split(_, _)
split(s, seps) ==
  IF \E i \in 1..Len(s) : s[i] \in seps
  THEN LET i == CHOOSE k \in 1..Len(s) :
                  s[k] \in seps /\ \A j \in 1..(k - 1) : s[j] \notin seps
       IN <<Take(s, i - 1)>> \o split(Drop(s, i), seps)
  ELSE <<s>>

\* sep.join(parts)
RECURSIVE str_join(_, _)
str_join(sep, parts) ==
  IF parts = <<>> THEN <<>>
  ELSE IF Len(parts) = 1 THEN parts[1]
  ELSE parts[1] \o sep \o str_join(sep, Tail(parts))

\* [x for x in parts if keep]: the non-empty pieces
NonEmpty(parts) == SelectSeq(parts, LAMBDA x : x # <<>>)

-----------------------------------------------------------------------------
(* Configuration (lines 5-8) and os.path (ntpath)                          *)

os_sep == "\\"

os_altsep == "/"

curdir == "."

pardir == ".."

\* tokens whose first character is "." (str.startswith('.'))
DotNames == {".", "..", ".internal"}

\* ntpath.splitdrive: the drive token, when the path has one
HasDrive(p) == p # <<>> /\ Head(p) = "c:"

\* ntpath.join(a, b): b rooted keeps only a's drive; otherwise a, a separator, b
os_path_join(a, b) ==
  IF b # <<>> /\ Head(b) \in {os_sep, os_altsep}
  THEN (IF HasDrive(a) THEN <<Head(a)>> ELSE <<>>) \o b
  ELSE IF a # <<>> /\ a[Len(a)] \in {os_sep, os_altsep}
       THEN a \o b
       ELSE a \o <<os_sep>> \o b

PROJECT_ROOT == <<"c:", os_sep, "Codes", os_sep, "ts-collections">>

SRC_DIR == os_path_join(PROJECT_ROOT, <<"src">>)

TESTS_DIR == os_path_join(PROJECT_ROOT, <<"tests">>)

IMPORTS_FILE == os_path_join(SRC_DIR, <<"imports.ts">>)

\* the loop of ntpath.normpath over the components: comps still to read,
\* acc the components kept so far
RECURSIVE NormComps(_, _, _)
NormComps(comps, acc, rooted) ==
  IF comps = <<>> THEN acc
  ELSE LET c == Head(comps) IN
       IF c = <<>> \/ c = <<curdir>>
       THEN NormComps(Tail(comps), acc, rooted)
       ELSE IF c = <<pardir>>
       THEN IF acc # <<>> /\ acc[Len(acc)] # <<pardir>>
            THEN NormComps(Tail(comps), Take(acc, Len(acc) - 1), rooted)
            ELSE IF acc = <<>> /\ rooted
            THEN NormComps(Tail(comps), acc, rooted)
            ELSE NormComps(Tail(comps), Append(acc, c), rooted)
       ELSE NormComps(Tail(comps), Append(acc, c), rooted)

\* ntpath.normpath
os_path_normpath(path) ==
  LET p      == replace(path, os_altsep, os_sep)
      drive  == IF HasDrive(p) THEN <<Head(p)>> ELSE <<>>
      rest   == Drop(p, Len(drive))
      rooted == rest # <<>> /\ Head(rest) = os_sep
      prefix == drive \o (IF rooted THEN <<os_sep>> ELSE <<>>)
      comps  == NormComps(split(rest, {os_sep}), <<>>, rooted)
  IN IF prefix = <<>> /\ comps = <<>> THEN <<curdir>>
     ELSE prefix \o str_join(<<os_sep>>, comps)

\* str.rstrip of the separators, unless the string holds nothing else
RECURSIVE rstrip_seps(_)
rstrip_seps(h) ==
  IF h # <<>> /\ h[Len(h)] \in {os_sep, os_altsep}
     /\ \E k \in 1..Len(h) : h[k] \notin {os_sep, os_altsep}
  THEN rstrip_seps(Take(h, Len(h) - 1)) ELSE h

\* ntpath.dirname: the head of ntpath.split, trailing separators removed
os_path_dirname(path) ==
  LET drive == IF HasDrive(path) THEN <<Head(path)>> ELSE <<>>
      rest  == Drop(path, Len(drive))
      seps  == {i \in 1..Len(rest) : rest[i] \in {os_sep, os_altsep}}
      cut   == IF seps = {} THEN 0 ELSE CHOOSE i \in seps : \A j \in seps : j <= i
  IN drive \o rstrip_seps(Take(rest, cut))

\* length of the common prefix of two component lists
RECURSIVE CommonLen(_, _)
CommonLen(a, b) ==
  IF a # <<>> /\ b # <<>> /\ Head(a) = Head(b)
  THEN 1 + CommonLen(Tail(a), Tail(b)) ELSE 0

\* ntpath.relpath(path, start), both on drive c:
os_path_relpath(path, start) ==
  LET start_abs  == os_path_normpath(start)
      path_abs   == os_path_normpath(path)
      start_list == NonEmpty(split(Drop(start_abs, 1), {os_sep}))
      path_list  == NonEmpty(split(Drop(path_abs, 1), {os_sep}))
      i          == CommonLen(start_list, path_list)
      rel_list   == [k \in 1..(Len(start_list) - i) |-> <<pardir>>]
                      \o Drop(path_list, i)
  IN IF rel_list = <<>> THEN <<curdir>>
     ELSE str_join(<<os_sep>>, rel_list)

\* get_relative_path (lines 34-53)
get_relative_path(from_file, to_file_rel_src) ==
  LET to_file_abs == os_path_normpath(os_path_join(SRC_DIR, to_file_rel_src))
      from_dir    == os_path_dirname(from_file)
      rel_path    == replace(os_path_relpath(to_file_abs, from_dir), os_sep, "/")
  IN IF ~(Head(rel_path) \in DotNames)
     THEN <<".", "/">> \o rel_path
     ELSE rel_path

-----------------------------------------------------------------------------
(* The regular expressions (lines 19 and 64)                               *)

Quotes == {"\"", "'"}

\* the character at position p, "" past the end
At(s, p) == IF p \in 1..Len(s) THEN s[p] ELSE ""

\* \s+ at position p: the position after the run of whitespace, 0 when
\* there is none
RECURSIVE ws_end(_, _)
ws_end(s, p) == IF At(s, p) \in Whitespace THEN ws_end(s, p + 1) ELSE p

ws_plus(s, p) == IF At(s, p) \in Whitespace THEN ws_end(s, p + 1) ELSE 0

\* the first position >= p holding a character of set, 0 when there is none
first_of(s, p, set) ==
  IF \E i \in p..Len(s) : s[i] \in set
  THEN CHOOSE i \in p..Len(s) : s[i] \in set /\ \A j \in p..(i - 1) : s[j] \notin set
  ELSE 0

\* needle in haystack
str_contains(haystack, needle) ==
  \E i \in 1..(Len(haystack) - Len(needle) + 1) :
     SubSeq(haystack, i, i + Len(needle) - 1) = needle

\* the part the two patterns share, matched at position p:
\*   kw\s+(?:type\s+)?\{([^}]+)\}\s+from\s+["\']
\* ok, group 1, whether the optional type keyword matched, and the position
\* after the opening quote.  p1: after kw\s+; t1: after type\s+; p2: the
\* brace; p3: the closing brace; p4: from; p5: the quote
braces_from(s, p, kw) ==
  Let(ws_plus(s, p + 1), LAMBDA p1 :
  Let(IF p1 # 0 /\ At(s, p1) = "type" THEN ws_plus(s, p1 + 1) ELSE 0, LAMBDA t1 :
  Let(t1 # 0 /\ At(s, t1) = "{", LAMBDA ty :
  Let(IF ty THEN t1 ELSE p1, LAMBDA p2 :
  Let(first_of(s, p2 + 1, {"}"}), LAMBDA p3 :
  Let(ws_plus(s, p3 + 1), LAMBDA p4 :
  Let(ws_plus(s, p4 + 1), LAMBDA p5 :
  Let(/\ At(s, p) = kw
      /\ p1 # 0
      /\ At(s, p2) = "{"
      /\ p3 > p2 + 1
      /\ p4 # 0
      /\ At(s, p4) = "from"
      /\ p5 # 0
      /\ At(s, p5) \in Quotes, LAMBDA ok :
    [ok |-> ok,
     g1 |-> IF ok THEN SubSeq(s, p2 + 1, p3 - 1) ELSE <<>>,
     type |-> ok /\ ty,
     pos |-> IF ok THEN p5 + 1 ELSE 0]))))))))

\* tokens whose last characters are "imports"
EndsWithImports(tok) == tok = "imports"

NoMatch == [ok |-> FALSE, g1 |-> <<>>, type |-> FALSE]

\* import_pattern (line 64) matched at position p:
\*   import\s+(?:type\s+)?\{([^}]+)\}\s+from\s+["\'].*imports["\'];
import_pattern_at(s, p) ==
  Let(braces_from(s, p, "import"), LAMBDA m :
    IF /\ m.ok
       /\ \E q \in m.pos..Len(s) :
             /\ \A j \in m.pos..(q - 1) : s[j] # "\n"
             /\ EndsWithImports(s[q])
             /\ At(s, q + 1) \in Quotes
             /\ At(s, q + 2) = ";"
    THEN [ok |-> TRUE, g1 |-> m.g1, type |-> m.type]
    ELSE NoMatch)

\* the least element of a non-empty set of numbers
Min(ps) == CHOOSE p \in ps : \A j \in ps : p <= j

\* import_pattern.search(line): the leftmost match
import_pattern_search(line) ==
  Let({p \in 1..Len(line) : import_pattern_at(line, p).ok}, LAMBDA starts :
    IF starts = {} THEN NoMatch ELSE import_pattern_at(line, Min(starts)))

\* the export pattern (line 19) matched at position p:
\*   export\s+(?:type\s+)?\{([^}]+)\}\s+from\s+["\']([^"\']+)["\'];
export_pattern_at(s, p) ==
  Let(braces_from(s, p, "export"), LAMBDA m :
  Let(IF m.ok THEN first_of(s, m.pos, Quotes) ELSE 0, LAMBDA q :
    IF m.ok /\ q > m.pos /\ At(s, q + 1) = ";"
    THEN [ok |-> TRUE, g1 |-> m.g1, g2 |-> SubSeq(s, m.pos, q - 1), end |-> q + 2]
    ELSE [ok |-> FALSE, g1 |-> <<>>, g2 |-> <<>>, end |-> 0]))

\* pattern.findall(content) from position p on: the (symbols_str, path)
\* pairs of the non-overlapping matches, left to right
RECURSIVE export_pattern_findall(_, _)
export_pattern_findall(content, p) ==
  Let({i \in p..Len(content) : export_pattern_at(content, i).ok}, LAMBDA starts :
    IF starts = {} THEN <<>>
    ELSE Let(export_pattern_at(content, Min(starts)), LAMBDA m :
           <<<<m.g1, m.g2>>>> \o export_pattern_findall(content, m.end)))

\* [s.strip() for s in symbols_str.split(',') if s.strip()] (lines 24, 70)
split_symbols(symbols_str) ==
  LET parts == split(symbols_str, {","})
  IN NonEmpty([i \in 1..Len(parts) |-> strip(parts[i])])

-----------------------------------------------------------------------------
(* Python's order on strings, sorted(), dict                               *)

\* the tokens symbols are made of, in Python's string order (code points)
CodePointOrder == <<" ", "Bar", "Foo", "Nope", "Zed", "as", "type">>

Ord(tok) == CHOOSE i \in 1..Len(CodePointOrder) : CodePointOrder[i] = tok

\* a < b on strings
RECURSIVE str_less(_, _)
str_less(a, b) ==
  IF b = <<>> THEN FALSE
  ELSE IF a = <<>> THEN TRUE
  ELSE IF Head(a) = Head(b) THEN str_less(Tail(a), Tail(b))
  ELSE Ord(Head(a)) < Ord(Head(b))

\* sorted() left out: the symbols of a group in the order listed
sorted_Unsorted(xs) == xs

\* sorted(xs): stable, ascending
RECURSIVE sorted(_)
sorted(xs) ==
  IF xs = <<>> THEN <<>>
  ELSE LET rest == sorted(Take(xs, Len(xs) - 1))
           x    == xs[Len(xs)]
           k    == Cardinality({i \in 1..Len(rest) : ~str_less(x, rest[i])})
       IN Take(rest, k) \o <<x>> \o Drop(rest, k)

\* d[k] = v on a dict held as a function
dict_set(d, k, v) == [x \in DOMAIN d \cup {k} |-> IF x = k THEN v ELSE d[x]]

-----------------------------------------------------------------------------
(* parse_imports_ts (lines 10-32)                                          *)

AS == <<" ", "as", " ">>

\* symbol.split(' as ')[1]: the piece after the first ' as ', up to the next
split_as_1(symbol) ==
  LET i    == CHOOSE k \in 1..Len(symbol) :
                 /\ SubSeq(symbol, k, k + 2) = AS
                 /\ \A j \in 1..(k - 1) : SubSeq(symbol, j, j + 2) # AS
      rest == Drop(symbol, i + 2)
  IN IF str_contains(rest, AS)
     THEN Take(rest, (CHOOSE k \in 1..Len(rest) :
                         /\ SubSeq(rest, k, k + 2) = AS
                         /\ \A j \in 1..(k - 1) : SubSeq(rest, j, j + 2) # AS) - 1)
     ELSE rest

\* lines 25-30: the symbols of one statement entered into the map
RECURSIVE add_symbols(_, _, _)
add_symbols(exports_map, symbols, path) ==
  IF symbols = <<>> THEN exports_map
  ELSE LET symbol == IF str_contains(Head(symbols), AS)
                     THEN strip(split_as_1(Head(symbols)))
                     ELSE Head(symbols)
       IN add_symbols(dict_set(exports_map, symbol, path), Tail(symbols), path)

\* lines 22-30: the loop over the matches
RECURSIVE add_matches(_, _)
add_matches(exports_map, matches) ==
  IF matches = <<>> THEN exports_map
  ELSE add_matches(
         add_symbols(exports_map, split_symbols(Head(matches)[1]), Head(matches)[2]),
         Tail(matches))

\* the map parse_imports_ts returns for the barrel file's text
parse_imports_ts(content) ==
  add_matches(<<>>, export_pattern_findall(content, 1))

-----------------------------------------------------------------------------
(* process_file: one iteration of the loop over the lines (lines 66-101)   *)

\* lines 83-85: new_imports is a dict path -> symbols, in insertion order,
\* held as a sequence of [path, syms]
new_imports_add(new_imports, path, symbol) ==
  IF \E i \in 1..Len(new_imports) : new_imports[i].path = path
  THEN [i \in 1..Len(new_imports) |->
          IF new_imports[i].path = path
          THEN [new_imports[i] EXCEPT !.syms = Append(@, symbol)]
          ELSE new_imports[i]]
  ELSE Append(new_imports, [path |-> path, syms |-> <<symbol>>])

\* lines 75-85: the loop over the symbols of a matched line
RECURSIVE group_symbols(_, _, _, _)
group_symbols(file_path, symbols, exports_map, new_imports) ==
  IF symbols = <<>> THEN new_imports
  ELSE IF Head(symbols) \notin DOMAIN exports_map
  THEN group_symbols(file_path, Tail(symbols), exports_map, new_imports)
  ELSE group_symbols(file_path, Tail(symbols), exports_map,
         new_imports_add(new_imports,
                         get_relative_path(file_path, exports_map[Head(symbols)]),
                         Head(symbols)))

\* a line of the operator-visible channel (print)
Msg(kind, symbol, file, n) ==
  [kind |-> kind, symbol |-> symbol, file |-> file, n |-> n]

\* line 77: the warnings the loop over the symbols prints, in order
RECURSIVE warnings_of(_, _, _)
warnings_of(file_path, symbols, exports_map) ==
  IF symbols = <<>> THEN <<>>
  ELSE (IF Head(symbols) \notin DOMAIN exports_map
        THEN <<Msg("Warning", Head(symbols), file_path, 0)>> ELSE <<>>)
       \o warnings_of(file_path, Tail(symbols), exports_map)

\* line 91: 'import type' in line
is_type_import(line) == str_contains(line, <<"import", " ", "type">>)

\* lines 94-96: the import line built for one group
new_line(type_import, path, syms) ==
  (IF type_import THEN <<"import", " ", "type">> ELSE <<"import">>)
    \o <<" ", "{", " ">> \o str_join(<<",", " ">>, sorted(syms))
    \o <<" ", "}", " ", "from", " ", "\"">> \o path \o <<"\"", ";", "\n">>

\* lines 93-97: the lines built for the groups, in the dict's order
new_lines_of(type_import, new_imports) ==
  [i \in 1..Len(new_imports) |->
     new_line(type_import, new_imports[i].path, new_imports[i].syms)]

\* rewrite_line without the else branch of line 100: an unmatched line is
\* not copied to new_lines
rewrite_line_DropsUnmatched(file_path, line, exports_map) ==
  Let(import_pattern_search(line), LAMBDA match :
    IF match.ok
    THEN Let(split_symbols(match.g1), LAMBDA symbols :
           [matched |-> TRUE,
            lines   |-> new_lines_of(is_type_import(line),
                          group_symbols(file_path, symbols, exports_map, <<>>)),
            printed |-> warnings_of(file_path, symbols, exports_map)])
    ELSE [matched |-> FALSE, lines |-> <<>>, printed |-> <<>>])

\* lines 67-101: what one line contributes: whether it matched, the lines
\* appended to new_lines, and the warnings printed
rewrite_line(file_path, line, exports_map) ==
  Let(import_pattern_search(line), LAMBDA match :
    IF match.ok
    THEN Let(split_symbols(match.g1), LAMBDA symbols :
           [matched |-> TRUE,
            lines   |-> new_lines_of(is_type_import(line),
                          group_symbols(file_path, symbols, exports_map, <<>>)),
            printed |-> warnings_of(file_path, symbols, exports_map)])
    ELSE [matched |-> FALSE, lines |-> <<line>>, printed |-> <<>>])

\* f.readlines(): the text cut after each "\n"
RECURSIVE readlines(_)
readlines(content) ==
  IF content = <<>> THEN <<>>
  ELSE LET i == first_of(content, 1, {"\n"})
       IN IF i = 0 THEN <<content>>
          ELSE <<Take(content, i)>> \o readlines(Drop(content, i))

\* f.writelines(lines): the lines one after the other
RECURSIVE writelines(_)
writelines(lines) ==
  IF lines = <<>> THEN <<>> ELSE Head(lines) \o writelines(Tail(lines))

-----------------------------------------------------------------------------
(* The working tree                                                        *)

SUB_DIR == os_path_join(SRC_DIR, <<"sub">>)

\* the directories os.walk visits from top, top-down, with their files in
\* the order the directory listing gives them
DirFiles(dir) ==
  IF dir = SRC_DIR THEN <<"README.md", "a.ts", "c.ts", "imports.ts">>
  ELSE IF dir = SUB_DIR THEN <<"b.ts", "imports.ts">>
  ELSE IF dir = TESTS_DIR THEN <<"t.ts">>
  ELSE <<>>

SubDirs(dir) == IF dir = SRC_DIR THEN <<SUB_DIR>> ELSE <<>>

Reverse(xs) == [i \in 1..Len(xs) |-> xs[Len(xs) + 1 - i]]

\* the (root, file) pairs of the two nested loops over os.walk(top) (lines
\* 113-114 and 119-120); listing is the order of the directory listings
RECURSIVE os_walk(_, _, _)
os_walk(tree, tops, listing) ==
  IF tops = <<>> THEN <<>>
  ELSE LET root  == Head(tops)
           files == IF listing = "reversed" THEN Reverse(DirFiles(root))
                    ELSE DirFiles(root)
       IN [i \in 1..Len(files) |-> [tree |-> tree, root |-> root, file |-> files[i]]]
            \o os_walk(tree, SubDirs(root), listing)
            \o os_walk(tree, Tail(tops), listing)

\* file.endswith('.ts') on the file names of the tree
EndsWithTs(file) == file \in {"a.ts", "b.ts", "c.ts", "t.ts", "imports.ts"}

\* the conditions of lines 115 and 121
Eligible(entry) ==
  IF entry.tree = "src"
  THEN EndsWithTs(entry.file) /\ entry.file # "imports.ts"
  ELSE EndsWithTs(entry.file)

F_a == os_path_join(SRC_DIR, <<"a.ts">>)

F_c == os_path_join(SRC_DIR, <<"c.ts">>)

F_readme == os_path_join(SRC_DIR, <<"README.md">>)

F_b == os_path_join(SUB_DIR, <<"b.ts">>)

F_sub_imports == os_path_join(SUB_DIR, <<"imports.ts">>)

F_t == os_path_join(TESTS_DIR, <<"t.ts">>)

Files == {IMPORTS_FILE, F_a, F_c, F_readme, F_b, F_sub_imports, F_t}

-----------------------------------------------------------------------------
(* The texts the files start with                                          *)

\* longest symbol list of the import line that varies
MaxSyms == 2

\* consecutive runs of the script
MaxRuns == 2

Q == "\""

\* head { syms } from "module";
Stmt(head, syms, module) ==
  head \o <<" ", "{", " ">> \o str_join(<<",", " ">>, syms)
       \o <<" ", "}", " ", "from", " ", Q>> \o module \o <<Q, ";">>

Path(comps) == str_join(<<"/">>, [i \in 1..Len(comps) |-> <<comps[i]>>])

\* three barrel files: plain; multi-line with a rename, a trailing comma, a
\* statement without terminator and a symbol exported twice; and one that
\* re-exports from a nested barrel and from a dot-named directory
Barrels ==
  { Stmt(<<"export">>, <<<<"Foo">>, <<"Bar">>>>, Path(<<".", "a", "A">>)) \o <<"\n">>
      \o Stmt(<<"export", " ", "type">>, <<<<"Zed">>>>, Path(<<".", "sub", "B">>))
      \o <<"\n">>,
    <<"export", " ", "{", "\n", " ", "Foo", ",", "\n", " ", "Nope", " ", "as", " ",
      "Bar", ",", "\n", "}", " ", "from", " ", "'">> \o Path(<<".", "a", "A">>)
      \o <<"'", ";", "\n">>
      \o Stmt(<<"export">>, <<<<"Zed">>>>, Path(<<".", "sub", "B">>)) \o <<"\n">>
      \o <<"export", " ", "{", " ", "Foo", " ", "}", " ", "from", " ", Q, ".", "/",
           "x", Q, "\n">>
      \o Stmt(<<"export">>, <<<<"Zed">>>>, Path(<<".", "sub", "..", "a", "A">>))
      \o <<"\n">>,
    Stmt(<<"export">>, <<<<"Foo">>>>, Path(<<".", "sub", "imports">>)) \o <<"\n">>
      \o Stmt(<<"export">>, <<<<"Bar">>>>, Path(<<".", ".internal", "H">>)) \o <<"\n">>
      \o Stmt(<<"export">>, <<<<"Zed">>>>, Path(<<".", "sub", "B">>)) \o <<"\n">> }

\* the symbols an import names; Nope is exported by no barrel under that name
Symbols == {<<"Foo">>, <<"Bar">>, <<"Zed">>, <<"Nope">>}

SymLists == UNION {[1..n -> Symbols] : n \in 1..MaxSyms}

\* import, import type, and import type with two spaces between the keywords
Heads == {<<"import">>, <<"import", " ", "type">>, <<"import", " ", " ", "type">>}

\* src/a.ts: the varying import of the barrel between two other lines
Text_a(head, syms) ==
  <<"// a", "\n">>
    \o Stmt(head, syms, Path(<<".", "imports">>)) \o <<"\n">>
    \o <<"export const a = 1;", "\n">>

\* tests/t.ts: the varying import, and a last line, an import of the barrel,
\* without line terminator
Text_t(head, syms) ==
  Stmt(head, syms, Path(<<"..", "src", "imports">>)) \o <<" ", "// barrel", "\n">>
    \o <<"test();", "\n">>
    \o <<"import", " ", "{", "Zed", ",", "Foo", "}", " ", "from", " ", "'", "..", "/",
         "src", "/", "imports", "'", ";">>

\* src/sub/b.ts: a value import with 'import type' in its comment, and two
\* statements on one line
Text_b ==
  Stmt(<<"import">>, <<<<"Zed">>, <<"Foo">>, <<"Bar">>>>, Path(<<"..", "imports">>))
    \o <<" ", "//", " ", "import", " ", "type", "\n">>
    \o Stmt(<<"import">>, <<<<"Bar">>>>, Path(<<".", "x">>)) \o <<" ">>
    \o Stmt(<<"import">>, <<<<"Zed">>>>, Path(<<"..", "imports">>)) \o <<"\n">>

\* src/c.ts: nothing the pattern matches: an import of the barrel over three
\* lines, an import of another module, an import without terminator, an
\* import with an empty list, and a last line without line terminator
Text_c ==
  <<"import", " ", "{", "\n", " ", "Foo", ",", "\n", "}", " ", "from", " ", Q, ".",
    "/", "imports", Q, ";", "\n">>
    \o Stmt(<<"import">>, <<<<"Bar">>>>, Path(<<".", "a", "A">>)) \o <<"\n">>
    \o <<"import", " ", "{", " ", "Zed", " ", "}", " ", "from", " ", Q, ".", "/",
         "imports", Q, "\n">>
    \o <<"import", " ", "{", "}", " ", "from", " ", Q, ".", "/", "imports", Q, ";",
         "\n">>
    \o <<"export default 1">>

\* a file system: the text of every file of the tree
InitialFs(barrel, head, syms) ==
  [f \in Files |->
     IF f = IMPORTS_FILE THEN barrel
     ELSE IF f = F_a THEN Text_a(head, syms)
     ELSE IF f = F_t THEN Text_t(head, syms)
     ELSE IF f = F_b THEN Text_b
     ELSE IF f = F_c THEN Text_c
     ELSE Text_a(head, syms)]

-----------------------------------------------------------------------------
(* The state                                                               *)

VARIABLES
  fs,           \* the text of every file of the working tree
  listing,      \* the order in which the directory listings come
  pc,           \* where main is: idle, walk, lines, done, aborted, halted
  run,          \* the number of runs started
  exports_map,  \* main's exports_map
  todo,         \* the (root, file) pairs the loops of main have yet to visit
  pf,           \* process_file's file_path, lines, new_lines, modified, and
                \* idx, the number of lines the loop has consumed
  out,          \* what this run has printed
  fs0,          \* history: the file system when this run started
  written,      \* history: the files this run has opened for writing
  calls,        \* history: the calls of process_file of this run, per file
  mark,         \* history: len(new_lines) and len(out) before the last
                \* iteration of process_file's loop
  prev          \* history: how the previous run ended

vars == <<fs, listing, pc, run, exports_map, todo, pf, out, fs0, written, calls,
          mark, prev>>

NoFile == [file_path |-> <<>>, lines |-> <<>>, idx |-> 0, new_lines |-> <<>>,
           modified |-> FALSE]

NoMark == [new_lines |-> 0, out |-> 0]

Init ==
  /\ \E barrel \in Barrels, head \in Heads, syms \in SymLists :
        fs = InitialFs(barrel, head, syms)
  /\ listing \in {"sorted", "reversed"}
  /\ pc = "idle"
  /\ run = 0
  /\ exports_map = <<>>
  /\ todo = <<>>
  /\ pf = NoFile
  /\ out = <<>>
  /\ fs0 = fs
  /\ written = {}
  /\ calls = [f \in Files |-> 0]
  /\ mark = NoMark
  /\ prev = "none"

-----------------------------------------------------------------------------
(* main (lines 108-122)                                                    *)

\* a run starts when the script is idle or a run has gone through
StartRun ==
  /\ pc \in {"idle", "done"}
  /\ run < MaxRuns
  /\ run' = run + 1
  /\ prev' = pc
  /\ fs0' = fs
  /\ written' = {}
  /\ calls' = [f \in Files |-> 0]
  /\ pf' = NoFile
  /\ mark' = NoMark

\* lines 109-110, the barrel file read: the index is built and its size
\* printed, and the loops over the two trees begin
MainParses ==
  /\ StartRun
  /\ exports_map' = parse_imports_ts(fs[IMPORTS_FILE])
  /\ out' = <<Msg("Found", <<>>, <<>>, Cardinality(DOMAIN exports_map'))>>
  /\ todo' = os_walk("src", <<SRC_DIR>>, listing)
               \o os_walk("tests", <<TESTS_DIR>>, listing)
  /\ pc' = "walk"
  /\ UNCHANGED <<fs, listing>>

\* the failed read of the barrel file caught: main goes on with no index
MainParseFails_Swallowed ==
  /\ StartRun
  /\ exports_map' = <<>>
  /\ out' = <<>>
  /\ todo' = os_walk("src", <<SRC_DIR>>, listing)
               \o os_walk("tests", <<TESTS_DIR>>, listing)
  /\ pc' = "walk"
  /\ UNCHANGED <<fs, listing>>

\* line 13 raises (the barrel file cannot be read): main ends there
MainParseFails ==
  /\ StartRun
  /\ exports_map' = <<>>
  /\ out' = <<>>
  /\ todo' = <<>>
  /\ pc' = "aborted"
  /\ UNCHANGED <<fs, listing>>

\* lines 115 and 121: a file the condition rejects
WalkSkips ==
  /\ pc = "walk"
  /\ todo # <<>>
  /\ ~Eligible(Head(todo))
  /\ todo' = Tail(todo)
  /\ UNCHANGED <<fs, listing, pc, run, exports_map, pf, out, fs0, written, calls,
                 mark, prev>>

\* both loops are through: main returns
WalkEnds ==
  /\ pc = "walk"
  /\ todo = <<>>
  /\ pc' = "done"
  /\ UNCHANGED <<fs, listing, run, exports_map, todo, pf, out, fs0, written, calls,
                 mark, prev>>

-----------------------------------------------------------------------------
(* process_file (lines 55-106)                                             *)

\* lines 116 and 122: the path main passes
PathOf(entry) == os_path_join(entry.root, <<entry.file>>)

\* lines 56-60: the file read
ProcessFileReads ==
  /\ pc = "walk"
  /\ todo # <<>>
  /\ Eligible(Head(todo))
  /\ LET file_path == PathOf(Head(todo)) IN
       /\ pf' = [file_path |-> file_path, lines |-> readlines(fs[file_path]),
                 idx |-> 0, new_lines |-> <<>>, modified |-> FALSE]
       /\ calls' = [calls EXCEPT ![file_path] = @ + 1]
  /\ todo' = Tail(todo)
  /\ mark' = NoMark
  /\ pc' = "lines"
  /\ UNCHANGED <<fs, listing, run, exports_map, out, fs0, written, prev>>

\* the failed read of a file caught: main goes on to the next file
ProcessFileReadFails_Skipped ==
  /\ pc = "walk"
  /\ todo # <<>>
  /\ Eligible(Head(todo))
  /\ calls' = [calls EXCEPT ![PathOf(Head(todo))] = @ + 1]
  /\ pf' = [NoFile EXCEPT !.file_path = PathOf(Head(todo))]
  /\ todo' = Tail(todo)
  /\ mark' = NoMark
  /\ UNCHANGED <<fs, listing, pc, run, exports_map, out, fs0, written, prev>>

\* lines 56-57 raise: the exception leaves process_file and main
ProcessFileReadFails ==
  /\ pc = "walk"
  /\ todo # <<>>
  /\ Eligible(Head(todo))
  /\ calls' = [calls EXCEPT ![PathOf(Head(todo))] = @ + 1]
  /\ pf' = [NoFile EXCEPT !.file_path = PathOf(Head(todo))]
  /\ todo' = Tail(todo)
  /\ mark' = NoMark
  /\ pc' = "halted"
  /\ UNCHANGED <<fs, listing, run, exports_map, out, fs0, written, prev>>

\* line 80 without the test of line 76: a symbol the index lacks raises
\* KeyError, which leaves process_file and main
ProcessFileLine_RaisesOnUnknown ==
  /\ pc = "lines"
  /\ pf.idx < Len(pf.lines)
  /\ \E r \in {rewrite_line(pf.file_path, pf.lines[pf.idx + 1], exports_map)} :
       IF r.printed # <<>>
       THEN /\ pc' = "halted"
            /\ UNCHANGED <<pf, out>>
       ELSE /\ pf' = [pf EXCEPT !.idx = @ + 1,
                                !.new_lines = @ \o r.lines,
                                !.modified = @ \/ r.matched]
            /\ out' = out \o r.printed
            /\ pc' = pc
  /\ mark' = [new_lines |-> Len(pf.new_lines), out |-> Len(out)]
  /\ UNCHANGED <<fs, listing, run, exports_map, todo, fs0, written, calls, prev>>

\* lines 66-101: one iteration of the loop over the lines
ProcessFileLine ==
  /\ pc = "lines"
  /\ pf.idx < Len(pf.lines)
  /\ \E r \in {rewrite_line(pf.file_path, pf.lines[pf.idx + 1], exports_map)} :
       /\ pf' = [pf EXCEPT !.idx = @ + 1,
                           !.new_lines = @ \o r.lines,
                           !.modified = @ \/ r.matched]
       /\ out' = out \o r.printed
  /\ mark' = [new_lines |-> Len(pf.new_lines), out |-> Len(out)]
  /\ UNCHANGED <<fs, listing, pc, run, exports_map, todo, fs0, written, calls, prev>>

\* lines 104-106 without the test of line 103: the file is written though no
\* line matched
ProcessFileKeeps_WritesAnyway ==
  /\ pc = "lines"
  /\ pf.idx = Len(pf.lines)
  /\ ~pf.modified
  /\ fs' = [fs EXCEPT ![pf.file_path] = writelines(pf.new_lines)]
  /\ written' = written \cup {pf.file_path}
  /\ out' = Append(out, Msg("Updated", <<>>, pf.file_path, 0))
  /\ pc' = "walk"
  /\ UNCHANGED <<listing, run, exports_map, todo, pf, fs0, calls, mark, prev>>

\* line 103, modified is false: process_file returns
ProcessFileKeeps ==
  /\ pc = "lines"
  /\ pf.idx = Len(pf.lines)
  /\ ~pf.modified
  /\ pc' = "walk"
  /\ UNCHANGED <<fs, listing, run, exports_map, todo, pf, out, fs0, written, calls,
                 mark, prev>>

\* lines 103-106: the file written and the confirmation printed
ProcessFileWrites ==
  /\ pc = "lines"
  /\ pf.idx = Len(pf.lines)
  /\ pf.modified
  /\ fs' = [fs EXCEPT ![pf.file_path] = writelines(pf.new_lines)]
  /\ written' = written \cup {pf.file_path}
  /\ out' = Append(out, Msg("Updated", <<>>, pf.file_path, 0))
  /\ pc' = "walk"
  /\ UNCHANGED <<listing, run, exports_map, todo, pf, fs0, calls, mark, prev>>

\* lines 104-105 raise: open() fails and the file is as it was, or the write
\* fails after open() has truncated the file; the exception leaves main
ProcessFileWriteFails ==
  /\ pc = "lines"
  /\ pf.idx = Len(pf.lines)
  /\ pf.modified
  /\ \/ UNCHANGED <<fs, written>>
     \/ /\ fs' = [fs EXCEPT ![pf.file_path] = <<>>]
        /\ written' = written \cup {pf.file_path}
  /\ pc' = "halted"
  /\ UNCHANGED <<listing, run, exports_map, todo, pf, out, fs0, calls, mark, prev>>

Next ==
  \/ MainParses
  \/ MainParseFails
  \/ WalkSkips
  \/ WalkEnds
  \/ ProcessFileReads
  \/ ProcessFileReadFails
  \/ ProcessFileLine
  \/ ProcessFileKeeps
  \/ ProcessFileWrites
  \/ ProcessFileWriteFails

Spec == Init /\ [][Next]_vars

-----------------------------------------------------------------------------
(* Reading a run                                                           *)

\* the names listed between the first "{" of a line and the "}" after it
ListedSymbols(line) ==
  Let(first_of(line, 1, {"{"}), LAMBDA open :
    SelectSeq(SubSeq(line, open + 1, first_of(line, open + 1, {"}"}) - 1),
              LAMBDA t : t \notin Whitespace \cup {","}))

\* the text between the first quote of a line and the quote after it
QuotedPath(line) ==
  Let(first_of(line, 1, Quotes), LAMBDA open :
    SubSeq(line, open + 1, first_of(line, open + 1, Quotes) - 1))

Matches(line) == import_pattern_search(line).ok

Range(xs) == {xs[i] : i \in 1..Len(xs)}

Known(sym) == <<sym>> \in DOMAIN exports_map

\* the import path of a known symbol, as a file sees it
ResolvedFrom(file, sym) == get_relative_path(file, exports_map[<<sym>>])

\* the import path of a known symbol, as the file being processed sees it
Resolved(sym) == ResolvedFrom(pf.file_path, sym)

\* the loop of process_file has just consumed a line
InLoop == pc = "lines" /\ pf.idx > 0

\* the line last consumed, what it added to new_lines, and what it printed
CurLine == pf.lines[pf.idx]

Block == SubSeq(pf.new_lines, mark.new_lines + 1, Len(pf.new_lines))

Printed == SubSeq(out, mark.out + 1, Len(out))

\* the known symbols of the line last consumed, in the order listed
KnownListed == SelectSeq(ListedSymbols(CurLine), Known)

\* where a path is first met, scanning the known symbols left to right
FirstMet(path) ==
  Min({i \in 1..Len(KnownListed) : Resolved(KnownListed[i]) = path})

\* the files main is to hand to process_file: the ones with the extension
\* in the two trees, but for the barrel file
InTree(f, dir) == Len(f) > Len(dir) /\ Take(f, Len(dir)) = dir

Rewritable(f) ==
  /\ EndsWithTs(f[Len(f)])
  /\ InTree(f, SRC_DIR) \/ InTree(f, TESTS_DIR)
  /\ f # IMPORTS_FILE

HasMatch(text) == \E i \in 1..Len(readlines(text)) : Matches(readlines(text)[i])

Updated(f) == Msg("Updated", <<>>, f, 0)

-----------------------------------------------------------------------------
(* Claims                                                                  *)

\* C2 (grouping and ordering): a matched line is replaced by exactly one
\* import line per distinct resolved path of its known symbols; the symbols
\* inside each built line are in ascending order; and the built lines come
\* in the order in which their paths are first met in the original list.
C2_GroupingAndOrdering ==
  (InLoop /\ Matches(CurLine)) =>
    /\ Len(Block) = Cardinality({Resolved(sym) : sym \in Range(KnownListed)})
    /\ \A i \in 1..Len(Block) :
          /\ \E sym \in Range(KnownListed) : QuotedPath(Block[i]) = Resolved(sym)
          /\ \A j \in 1..(i - 1) :
                /\ QuotedPath(Block[j]) # QuotedPath(Block[i])
                /\ FirstMet(QuotedPath(Block[j])) < FirstMet(QuotedPath(Block[i]))
          /\ \A k \in 2..Len(ListedSymbols(Block[i])) :
                Ord(ListedSymbols(Block[i])[k - 1]) <= Ord(ListedSymbols(Block[i])[k])

\* a matched line became two lines: the first for the symbol listed first,
\* though it sorts last, the second with its two symbols put in order
C2_Witness ==
  /\ InLoop
  /\ Matches(CurLine)
  /\ ListedSymbols(CurLine) = <<"Zed", "Foo", "Bar">>
  /\ Len(Block) = 2
  /\ ListedSymbols(Block[1]) = <<"Zed">>
  /\ ListedSymbols(Block[2]) = <<"Bar", "Foo">>

\* a line process_file builds for a matched line of a file: import or import
\* type, the braces around symbols of the matched line, and the path these
\* resolve to
BuiltFor(file, line, built) ==
  /\ \/ Take(built, 3) = <<"import", " ", "{">>
     \/ Take(built, 5) = <<"import", " ", "type", " ", "{">>
  /\ SubSeq(built, Len(built) - 2, Len(built)) = <<"\"", ";", "\n">>
  /\ ListedSymbols(built) # <<>>
  /\ \A sym \in Range(ListedSymbols(built)) :
        /\ sym \in Range(ListedSymbols(line))
        /\ Known(sym)
        /\ QuotedPath(built) = ResolvedFrom(file, sym)

\* produced is the lines consumed with every unmatched line in its place and
\* as it was, and, in the place of every matched line, built lines only
RECURSIVE Framed(_, _, _)
Framed(file, consumed, produced) ==
  IF consumed = <<>> THEN produced = <<>>
  ELSE IF ~Matches(Head(consumed))
  THEN /\ produced # <<>>
       /\ Head(produced) = Head(consumed)
       /\ Framed(file, Tail(consumed), Tail(produced))
  ELSE \E k \in 0..Len(produced) :
          /\ \A i \in 1..k : BuiltFor(file, Head(consumed), produced[i])
          /\ Framed(file, Tail(consumed), Drop(produced, k))

\* C3 (in-place replacement with unchanged frame): in the line sequence
\* process_file produces, the unmatched lines are those of the input, with
\* the same content and in the same order, the lines built for a matched
\* line stand where that line stood, and there is no other line; the file
\* is read whole, and what is written is that sequence.
C3_InPlaceReplacement ==
  /\ (pc = "lines" /\ pf.idx = Len(pf.lines)) =>
        /\ pf.lines = readlines(fs0[pf.file_path])
        /\ Framed(pf.file_path, pf.lines, pf.new_lines)
  /\ (pc \in {"walk", "halted"} /\ pf.file_path \in written) =>
        \/ fs[pf.file_path] = <<>> /\ pc = "halted"
        \/ Framed(pf.file_path, readlines(fs0[pf.file_path]),
                  readlines(fs[pf.file_path]))

\* the loop is through a file whose matched line, between two unmatched
\* ones, was replaced by two built lines
C3_Witness ==
  /\ pc = "lines"
  /\ pf.idx = Len(pf.lines)
  /\ Len(pf.lines) = 3
  /\ ~Matches(pf.lines[1]) /\ Matches(pf.lines[2]) /\ ~Matches(pf.lines[3])
  /\ Len(pf.new_lines) = 4
  /\ pf.new_lines[1] = pf.lines[1]
  /\ pf.new_lines[4] = pf.lines[3]

\* C4 (untouched file): a file in which no line matches the pattern is not
\* written and no confirmation is printed for it: its text stays what it was
\* when the run started, whatever the index holds.  (Stated from the other
\* side: a file that is written, reported, or changed has a matching line.)
C4_UntouchedFile ==
  \A f \in Files :
     (fs[f] # fs0[f] \/ f \in written \/ Updated(f) \in Range(out)) =>
        HasMatch(fs0[f])

\* a run went through, process_file was called on a file without a match,
\* and other files were written
C4_Witness ==
  /\ pc = "done"
  /\ ~HasMatch(fs0[F_c])
  /\ calls[F_c] = 1
  /\ fs[F_c] = Text_c
  /\ written # {}
  /\ DOMAIN exports_map # {}

\* how often x occurs in xs
Count(xs, x) == Cardinality({i \in 1..Len(xs) : xs[i] = x})

\* what one iteration over a matched line does with the symbols listed
SymbolsHandled ==
  (InLoop /\ Matches(CurLine)) =>
    /\ \A m \in Range(Printed) : m.kind = "Warning" /\ m.file = pf.file_path
    /\ \A sym \in Range(ListedSymbols(CurLine)) :
          IF Known(sym)
          THEN /\ Msg("Warning", <<sym>>, pf.file_path, 0) \notin Range(Printed)
               /\ \E i \in 1..Len(Block) :
                     /\ QuotedPath(Block[i]) = Resolved(sym)
                     /\ \A j \in 1..Len(Block) :
                           sym \in Range(ListedSymbols(Block[j])) <=> j = i
          ELSE /\ Count(Printed, Msg("Warning", <<sym>>, pf.file_path, 0))
                    = Count(ListedSymbols(CurLine), sym)
               /\ \A j \in 1..Len(Block) : sym \notin Range(ListedSymbols(Block[j]))

\* a step of the loop over the lines of a file goes on to the next line
NextLine == pc' = "lines" /\ pf'.idx = pf.idx + 1 /\ pf'.lines = pf.lines

\* a file whose lines are through goes back to main's loop, or the write fails
BackToMain == pc' \in {"walk", "halted"} /\ todo' = todo

\* C5 (unresolved symbol is dropped, not crashed): of a matched line, every
\* symbol the index lacks gets one warning and is in no built line, every
\* symbol the index holds is in the built line of its resolved path and in
\* no other; and the run goes on: the loop takes the next line of the file,
\* and after the last line main takes the next file.
C5_UnresolvedDropped ==
  /\ []SymbolsHandled
  /\ [][(pc = "lines" /\ pf.idx < Len(pf.lines)) => NextLine]_vars
  /\ [][(pc = "lines" /\ pf.idx = Len(pf.lines)) => BackToMain]_vars

\* a matched line listing an unknown symbol before a known one was replaced
\* by the known one's import, with one warning, and another line follows
C5_Witness ==
  /\ InLoop
  /\ Matches(CurLine)
  /\ ListedSymbols(CurLine) = <<"Nope", "Foo">>
  /\ Len(Printed) = 1
  /\ Len(Block) = 1
  /\ ListedSymbols(Block[1]) = <<"Foo">>
  /\ pf.idx < Len(pf.lines)

\* process_file has just been entered
Entered == pc \in {"lines", "halted"} /\ pf.idx = 0 /\ pf.file_path # <<>>

\* C8 (fatal index failure leaves the tree untouched): whenever process_file
\* is entered the index is built, whole, from the barrel file, and its size
\* printed; and a run that has not printed the size has ended on the barrel
\* file's read, has called process_file on no file and has written none:
\* every file is as it was.
C8_IndexFirst ==
  /\ Entered =>
        /\ exports_map = parse_imports_ts(fs0[IMPORTS_FILE])
        /\ out # <<>>
        /\ out[1] = Msg("Found", <<>>, <<>>, Cardinality(DOMAIN exports_map))
  /\ (run > 0 /\ (out = <<>> \/ out[1].kind # "Found")) =>
        /\ pc = "aborted"
        /\ fs = fs0
        /\ written = {}
        /\ \A f \in Files : calls[f] = 0

\* a run ended on the read of the barrel file with imports of the barrel
\* still in the tree
C8_Witness ==
  /\ pc = "aborted"
  /\ run = 1
  /\ \E f \in Files : Rewritable(f) /\ HasMatch(fs[f])
  /\ fs = fs0

\* the lines process_file produces for the lines of a file
RECURSIVE Rewritten(_, _)
Rewritten(file, lines) ==
  IF lines = <<>> THEN <<>>
  ELSE rewrite_line(file, Head(lines), exports_map).lines
         \o Rewritten(file, Tail(lines))

\* the text of a file once process_file has returned
Processed(file, text) ==
  IF HasMatch(text) THEN writelines(Rewritten(file, readlines(text))) ELSE text

\* the files main has yet to reach
Unreached == {PathOf(todo[i]) : i \in 1..Len(todo)}

\* C10 (non-transactional halt on I/O failure): when the read or the write
\* of a file fails the run ends at that file: the files process_file had
\* returned from hold their rewritten text, and the files not yet reached
\* hold the text they had, unread and unwritten.
C10_HaltOnFailure ==
  pc = "halted" =>
    /\ calls[pf.file_path] = 1
    /\ \A f \in Files \ {pf.file_path} :
          /\ calls[f] = 1 => fs[f] = Processed(f, fs0[f])
          /\ calls[f] = 0 => fs[f] = fs0[f] /\ f \notin written
          /\ calls[f] \in {0, 1}
          /\ f \in Unreached => calls[f] = 0
    /\ pf.file_path \notin Unreached

\* a run halted after a file was rewritten and before a file with an import
\* of the barrel was reached
C10_Witness ==
  /\ pc = "halted"
  /\ \E f \in Files \ {pf.file_path} : calls[f] = 1 /\ fs[f] # fs0[f]
  /\ \E f \in Unreached : Rewritable(f) /\ HasMatch(fs[f])

\* C1 (no-op idempotence): in a run that follows a run gone through, no file
\* is written and none is reported as modified.
C1_SecondPassChangesNothing ==
  (run >= 2 /\ prev = "done") =>
    /\ written = {}
    /\ \A f \in Files : Updated(f) \notin Range(out)

\* C6 (type-only propagation): the lines built for a matched statement with
\* the type keyword all begin with 'import type', and those built for a
\* matched statement without it all begin with plain 'import'.
C6_TypeOnlyPropagation ==
  (InLoop /\ Matches(CurLine)) =>
    \A i \in 1..Len(Block) :
       IF import_pattern_search(CurLine).type
       THEN Take(Block[i], 5) = <<"import", " ", "type", " ", "{">>
       ELSE Take(Block[i], 3) = <<"import", " ", "{">>

\* an import path that begins with ./ or ../ and holds no backslash
ExplicitRelative(path) ==
  /\ Len(path) >= 2
  /\ path[1] \in {".", ".."}
  /\ path[2] = "/"
  /\ \A i \in 1..Len(path) : path[i] # "\\"

\* C7 (explicit relative paths): whatever the importing file and the path
\* the index declares, get_relative_path gives a path that begins with ./ or
\* ../ and has forward slashes only.
C7_ExplicitRelativePaths ==
  \A f \in Files, sym \in DOMAIN exports_map :
     Rewritable(f) => ExplicitRelative(get_relative_path(f, exports_map[sym]))

\* C9 (driver coverage): when a run has gone through, process_file has been
\* called once on every file with the extension in the two trees but the
\* barrel file, and on no other file.
C9_DriverCoverage ==
  pc = "done" =>
    \A f \in Files : calls[f] = IF Rewritable(f) THEN 1 ELSE 0

=============================================================================
